---- MODULE Spec2Model ----
(***************************************************************************)
(* State-machine model of the live-interview core of PMF-Copilot:          *)
(*   - TranscriptView (src/src/components/interview/TranscriptView.tsx):   *)
(*     the recording effect, the asynchronous start routine, the socket,   *)
(*     audio and timer callbacks, and the chunk state behind setChunks;    *)
(*   - the question lifecycle behind QuestionListPanel (Card.tsx).         *)
(* Strings are sequences of one-character strings, so that trim and        *)
(* concatenation are computed as the code computes them.                   *)
(***************************************************************************)
EXTENDS Integers, Sequences, FiniteSets

\* ------------------------------------------------------------ bounds
\* Number of times recording may be started in one behaviour.
MaxStarts == 2
\* Number of final fragments accepted in one behaviour.
MaxMsgs == 1
\* Number of times the wall clock advances.
MaxAdvances == 1
\* Number of question markers injected per behaviour.
MaxMarkers == 1
\* Wall-clock step in milliseconds (30.5 s: exercises the floor to whole
\* seconds of formatTime).
TimeStep == 30500
\* Number of questions in the interview.
NumQuestions == 3
\* Number of answers the store may hold.
MaxAnswers == 3
\* Number of samples in an audio frame.
MaxFrame == 2
\* Samples are the fractions n / SampleDen with -MaxSample <= n <= MaxSample
\* (beyond -1 and 1 on both sides), and NaN.
SampleDen == 3
MaxSample == 4

Sess == 1..MaxStarts
\* A null ref.
Null == 0
\* No poll is in flight.
NoSnapshot == <<>>

\* ------------------------------------------------------------ strings
Space == " "
\* The final transcripts the recognition service may deliver.
Frags == {<<"a">>}

RECURSIVE TrimStart(_)
TrimStart(s) ==
  IF s = <<>> \/ Head(s) # Space THEN s ELSE TrimStart(Tail(s))

RECURSIVE TrimEnd(_)
TrimEnd(s) ==
  IF s = <<>> \/ s[Len(s)] # Space THEN s ELSE TrimEnd(SubSeq(s, 1, Len(s) - 1))

\* String.prototype.trim
Trim(s) == TrimEnd(TrimStart(s))

\* Array.prototype.join(" ")
RECURSIVE JoinSp(_)
JoinSp(ss) ==
  IF ss = <<>> THEN <<>>
  ELSE IF Len(ss) = 1 THEN ss[1]
  ELSE ss[1] \o <<Space>> \o JoinSp(Tail(ss))

\* The words of a string (maximal runs of non-space characters).
RECURSIVE WordsAcc(_, _)
WordsAcc(s, cur) ==
  IF s = <<>> THEN (IF cur = <<>> THEN <<>> ELSE <<cur>>)
  ELSE IF Head(s) = Space
       THEN (IF cur = <<>> THEN <<>> ELSE <<cur>>) \o WordsAcc(Tail(s), <<>>)
       ELSE WordsAcc(Tail(s), Append(cur, Head(s)))

Words(s) == WordsAcc(s, <<>>)

\* ------------------------------------------------------------ time
\* formatTime: "MM:SS" as the pair of its two numbers.
formatTime(ms) ==
  LET totalSeconds == ms \div 1000
  IN  [min |-> totalSeconds \div 60, sec |-> totalSeconds % 60]

\* Order of two formatted elapsed times.
TimeLeq(t1, t2) == t1.min < t2.min \/ (t1.min = t2.min /\ t1.sec <= t2.sec)

VARIABLES
  \* props and React state of TranscriptView
  isRecording, chunks, isConnecting, error,
  \* refs
  deepgramSocketRef, mediaStreamRef, audioContextRef, processorRef,
  isMountedRef, currentChunkRef, chunkTimerRef, recordingStartTimeRef,
  \* one entry per invocation of initializeRecording
  started, pc, stream, ctx, proc, sock, timer,
  \* environment
  now,
  \* observation of the run (history)
  stopRuns, teardown, doubleRelease, accepted, pendingFrags, msgCount,
  lastFrame, markers

tvVars == <<isRecording, chunks, isConnecting, error,
            deepgramSocketRef, mediaStreamRef, audioContextRef, processorRef,
            isMountedRef, currentChunkRef, chunkTimerRef, recordingStartTimeRef,
            started, pc, stream, ctx, proc, sock, timer, now,
            stopRuns, teardown, doubleRelease, accepted, pendingFrags,
            msgCount, lastFrame, markers>>

\* The question list of an interview (QuestionOrchestrator and SessionPoller).
VARIABLES
  qStatus,        \* QuestionOrchestrator: local status of every question
  unacked,        \* questions with a local status change not yet acknowledged
  advanceTimer,   \* question the debounced auto-advance will activate, or Null
  remote,         \* status of every question in the remote store
  snapshot,       \* remote snapshot fetched by a poll in flight, or NoSnapshot
  lastResult      \* outcome of the last orchestrator or poller operation

qVars == <<qStatus, unacked, advanceTimer, remote, snapshot, lastResult>>

\* The PCM encoder applied to one audio frame.
VARIABLES
  pcmIn,          \* the samples of the frame (Float32Array)
  pcmOut          \* the bytes floatTo16BitPCM returned for it

encVars == <<pcmIn, pcmOut>>

\* The transcript-completion effect of TranscriptView and the state of the
\* InterviewScreen that hosts it.
VARIABLES
  lastDeps,        \* <<isRecording, chunks>> of the render whose effect ran last
  cbChanged,       \* the screen re-rendered since: onTranscriptComplete is a new function
  completedWith,   \* <<argument>> of the last onTranscriptComplete call, or <<>>
  currentAnswer,   \* InterviewScreen state
  showFollowUps,   \* InterviewScreen state
  followUpTimers   \* number of pending follow-up timeouts

compVars == <<lastDeps, cbChanged, completedWith, currentAnswer, showFollowUps,
              followUpTimers>>

\* The question panel and the typed-answer InterviewScreen with the PMF store.
VARIABLES
  issued,                \* callbacks the panel issued for the last click
  currentQuestionIndex,  \* PMFState.currentQuestionIndex
  answers,               \* PMFState.answers
  isInterviewComplete    \* PMFState.isInterviewComplete

uiVars == <<issued, currentQuestionIndex, answers, isInterviewComplete>>

vars == <<tvVars, qVars, encVars, compVars, uiVars>>

\* getElapsedTime, read with the given start-time ref and clock.
getElapsedTime(startRef, clock) ==
  IF startRef = Null THEN formatTime(0) ELSE formatTime(clock - startRef)

\* ------------------------------------------------------------ chunk state
\* A Chunk (text, timestamp, type; a speech chunk is built without type) with
\* where it came from (src) and, for a speech chunk, the fragments that were
\* in the accumulator when it was cut.
MkChunk(text, ts, type, src, frags) ==
  [text |-> text, ts |-> ts, type |-> type, src |-> src, frags |-> frags]

\* The updater function of the timer callback and of the stop branch,
\*   (prev) => [...prev, { text: currentChunkRef.current.trim(),
\*                         timestamp: getElapsedTime() }],
\* run with the refs as they are at the moment React runs it.
SpeechUpdater(prev, acc, startRef, clock, src, frags) ==
  Append(prev, MkChunk(Trim(acc), getElapsedTime(startRef, clock), "undefined", src, frags))

\* When React runs an updater passed to setChunks: inside the setChunks call
\* (the eager-state path of dispatchSetState, taken when the component has no
\* update lanes pending) or at the render that follows the handler, after
\* the handler's remaining statements have run.
UpdaterRuns == {"eager", "atRender"}

\* ------------------------------------------------------------ resources
Suspended == {"fetch", "mic"}

\* WebSocket.close(): the socket leaves its state for good.  "closed" stands
\* for readyState CLOSING and CLOSED after a close() call, which the code
\* tells apart nowhere and which deliver no open or message event; "lost" is
\* readyState CLOSED reached without a close() call.  close() on a socket
\* that is still connecting fails the connection ("failing"): the browser
\* then fires the error event before the close event.
CloseCall(st) ==
  IF st = "none" THEN st ELSE IF st = "connecting" THEN "failing" ELSE "closed"

\* A stop branch that releases a handle and keeps its ref.
KeptRef(r) == r

\* "xRef.current = null" after releasing x.
ClearedRef(r) == Null

Init ==
  /\ isRecording = FALSE
  /\ chunks = <<>>
  /\ isConnecting = FALSE
  /\ error = "none"
  /\ deepgramSocketRef = Null
  /\ mediaStreamRef = Null
  /\ audioContextRef = Null
  /\ processorRef = Null
  /\ isMountedRef = TRUE
  /\ currentChunkRef = <<>>
  /\ chunkTimerRef = Null
  /\ recordingStartTimeRef = Null
  /\ started = 0
  /\ pc = [s \in Sess |-> "idle"]
  /\ stream = [s \in Sess |-> "none"]
  /\ ctx = [s \in Sess |-> "none"]
  /\ proc = [s \in Sess |-> "none"]
  /\ sock = [s \in Sess |-> "none"]
  /\ timer = [s \in Sess |-> "none"]
  /\ now = TimeStep
  /\ stopRuns = 0
  /\ teardown = <<>>
  /\ doubleRelease = FALSE
  /\ accepted = <<>>
  /\ pendingFrags = <<>>
  /\ msgCount = 0
  /\ lastFrame = [state |-> "none", sent |-> FALSE]
  /\ markers = 0
  /\ qStatus = [q \in 1..NumQuestions |-> "pending"]
  /\ unacked = {}
  /\ advanceTimer = Null
  /\ remote = [q \in 1..NumQuestions |-> "pending"]
  /\ snapshot = NoSnapshot
  /\ lastResult = "none"
  /\ pcmIn = <<>>
  /\ pcmOut = <<>>
  /\ lastDeps = <<FALSE, <<>>>>
  /\ cbChanged = FALSE
  /\ completedWith = <<>>
  /\ currentAnswer = <<>>
  /\ showFollowUps = FALSE
  /\ followUpTimers = 0
  /\ issued = <<>>
  /\ currentQuestionIndex = 0
  /\ answers = <<>>
  /\ isInterviewComplete = FALSE

\* ------------------------------------------------------------ stop branch
\* A stop branch that saves the remaining chunk before it tears down.
FlushFirstOrder == <<"flush", "timer", "socket", "processor", "tracks", "context">>

\* The teardown steps of the stop branch, in the order the code runs them.
TeardownOrder == <<"timer", "socket", "processor", "tracks", "context", "flush">>

\* The guard of each step of the stop branch.
StepActs(step) ==
  CASE step = "timer" -> chunkTimerRef # Null
    [] step = "socket" -> deepgramSocketRef # Null
    [] step = "processor" -> processorRef # Null
    [] step = "tracks" -> mediaStreamRef # Null
    [] step = "context" -> audioContextRef # Null /\ ctx[audioContextRef] # "closed"
    [] OTHER -> Trim(currentChunkRef) # <<>>

\* The steps one run of the stop branch performs, in order.
TeardownSteps == SelectSeq(TeardownOrder, StepActs)

\* A release call made on a handle that was already released.
ReleasedAgain ==
  \/ chunkTimerRef # Null /\ timer[chunkTimerRef] = "cleared"
  \/ deepgramSocketRef # Null /\ sock[deepgramSocketRef] \in {"failing", "closed"}
  \/ processorRef # Null /\ proc[processorRef] = "disconnected"
  \/ mediaStreamRef # Null /\ stream[mediaStreamRef] = "stopped"

\* The body of the effect when isRecording is false, and the render that
\* follows it; prev is the chunk list the effect runs on.
StopBranch(prev) ==
  /\ timer' = IF StepActs("timer")
              THEN [timer EXCEPT ![chunkTimerRef] = "cleared"] ELSE timer
  /\ chunkTimerRef' = IF StepActs("timer") THEN ClearedRef(chunkTimerRef) ELSE chunkTimerRef
  /\ sock' = IF StepActs("socket")
             THEN [sock EXCEPT ![deepgramSocketRef] = CloseCall(@)] ELSE sock
  /\ deepgramSocketRef' =
       IF StepActs("socket") THEN ClearedRef(deepgramSocketRef) ELSE deepgramSocketRef
  /\ proc' = IF StepActs("processor")
             THEN [proc EXCEPT ![processorRef] = "disconnected"] ELSE proc
  /\ processorRef' = IF StepActs("processor") THEN ClearedRef(processorRef) ELSE processorRef
  /\ stream' = IF StepActs("tracks")
               THEN [stream EXCEPT ![mediaStreamRef] = "stopped"] ELSE stream
  /\ mediaStreamRef' = IF StepActs("tracks") THEN ClearedRef(mediaStreamRef) ELSE mediaStreamRef
  /\ ctx' = IF StepActs("context")
            THEN [ctx EXCEPT ![audioContextRef] = "closed"] ELSE ctx
  /\ audioContextRef' =
       IF StepActs("context") THEN ClearedRef(audioContextRef) ELSE audioContextRef
  /\ currentChunkRef' = <<>>
  /\ recordingStartTimeRef' = Null
  /\ \E when \in UpdaterRuns :
       chunks' = IF ~StepActs("flush") THEN prev
                 ELSE IF when = "eager"
                 THEN SpeechUpdater(prev, currentChunkRef, recordingStartTimeRef, now,
                                    "stop", pendingFrags)
                 ELSE SpeechUpdater(prev, currentChunkRef', recordingStartTimeRef', now,
                                    "stop", pendingFrags)
  /\ pendingFrags' = <<>>
  /\ teardown' = TeardownSteps
  /\ doubleRelease' = (doubleRelease \/ ReleasedAgain)

\* The user stops recording: React renders with isRecording = false, runs the
\* cleanup of the start effect (isMountedRef.current = false) and then the
\* stop branch.
Stop ==
  /\ isRecording
  /\ isRecording' = FALSE
  /\ isMountedRef' = FALSE
  /\ StopBranch(chunks)
  /\ stopRuns' = 1
  /\ UNCHANGED <<qVars, encVars, compVars, uiVars>>
  /\ UNCHANGED <<isConnecting, error, started, pc, now, accepted, msgCount,
                 lastFrame, markers>>

\* The effect running (again) while isRecording is false: the effect of the
\* mount, and its second run under React.StrictMode.
StopEffect ==
  /\ ~isRecording
  /\ stopRuns < 2
  /\ StopBranch(chunks)
  /\ stopRuns' = stopRuns + 1
  /\ UNCHANGED <<qVars, encVars, compVars, uiVars>>
  /\ UNCHANGED <<isRecording, isConnecting, error, isMountedRef, started, pc,
                 now, accepted, msgCount, lastFrame, markers>>

\* ------------------------------------------------------------ start
\* The user starts recording: React renders with isRecording = true, the
\* effect sets isMountedRef and runs initializeRecording up to its first await.
Start ==
  /\ ~isRecording
  /\ stopRuns >= 1
  /\ started < MaxStarts
  /\ isRecording' = TRUE
  /\ chunks' = <<>>
  /\ isMountedRef' = TRUE
  /\ isConnecting' = TRUE
  /\ error' = "none"
  /\ currentChunkRef' = <<>>
  /\ recordingStartTimeRef' = now
  /\ started' = started + 1
  /\ pc' = [pc EXCEPT ![started + 1] = "fetch"]
  /\ stopRuns' = 0
  /\ accepted' = <<>>
  /\ pendingFrags' = <<>>
  /\ UNCHANGED <<qVars, encVars, compVars, uiVars>>
  /\ UNCHANGED <<deepgramSocketRef, mediaStreamRef, audioContextRef,
                 processorRef, chunkTimerRef, stream, ctx, proc, sock, timer,
                 now, teardown, doubleRelease, msgCount, lastFrame,
                 markers>>

\* The catch block of initializeRecording.
Catch(s, message) ==
  /\ pc' = [pc EXCEPT ![s] = "caught"]
  /\ error' = IF isMountedRef THEN message ELSE error
  /\ isConnecting' = IF isMountedRef THEN FALSE ELSE isConnecting

\* fetch("/deepgram-key") and keyResponse.json() settle (the code between
\* the two awaits reads and writes no state, so they are one step): a
\* response that is not ok, or one without api_key, throws; then the routine
\* returns if isMountedRef is false, else it asks for the microphone.
FetchResolve(s, ok, hasKey) ==
  /\ pc[s] = "fetch"
  /\ IF ~ok
     THEN Catch(s, "Failed to fetch Deepgram API key")
     ELSE IF ~hasKey
     THEN Catch(s, "Deepgram API key not configured")
     ELSE /\ pc' = [pc EXCEPT ![s] = IF isMountedRef THEN "mic" ELSE "returned"]
          /\ UNCHANGED <<error, isConnecting>>
  /\ UNCHANGED <<qVars, encVars, compVars, uiVars>>
  /\ UNCHANGED <<isRecording, chunks, deepgramSocketRef, mediaStreamRef,
                 audioContextRef, processorRef, isMountedRef,
                 currentChunkRef, chunkTimerRef, recordingStartTimeRef,
                 started, stream, ctx, proc, sock, timer, now, stopRuns,
                 teardown, doubleRelease, accepted, pendingFrags, msgCount,
                 lastFrame, markers>>

\* getUserMedia settles. Rejected: the catch block. Granted: the stream is
\* stopped at once if isMountedRef is false; else the audio context, the
\* processor and the socket are created and the refs set.
MicResolve(s, granted) ==
  /\ pc[s] = "mic"
  /\ IF ~granted
     THEN /\ Catch(s, "Permission denied")
          /\ UNCHANGED <<stream, ctx, proc, sock, mediaStreamRef, audioContextRef,
                         processorRef, deepgramSocketRef>>
     ELSE IF ~isMountedRef
     THEN /\ stream' = [stream EXCEPT ![s] = "stopped"]
          /\ pc' = [pc EXCEPT ![s] = "returned"]
          /\ UNCHANGED <<error, isConnecting, ctx, proc, sock, mediaStreamRef,
                         audioContextRef, processorRef, deepgramSocketRef>>
     ELSE /\ stream' = [stream EXCEPT ![s] = "live"]
          /\ mediaStreamRef' = s
          /\ ctx' = [ctx EXCEPT ![s] = "running"]
          /\ audioContextRef' = s
          /\ proc' = [proc EXCEPT ![s] = "connected"]
          /\ processorRef' = s
          /\ sock' = [sock EXCEPT ![s] = "connecting"]
          /\ deepgramSocketRef' = s
          /\ pc' = [pc EXCEPT ![s] = "done"]
          /\ UNCHANGED <<error, isConnecting>>
  /\ UNCHANGED <<qVars, encVars, compVars, uiVars>>
  /\ UNCHANGED <<isRecording, chunks, isMountedRef, currentChunkRef,
                 chunkTimerRef, recordingStartTimeRef, started, timer, now,
                 stopRuns, teardown, doubleRelease, accepted, pendingFrags,
                 msgCount, lastFrame, markers>>

\* ------------------------------------------------------------ callbacks
\* deepgramSocket.onopen: the handshake of socket s completes.
SockOpen(s) ==
  /\ sock[s] = "connecting"
  /\ sock' = [sock EXCEPT ![s] = "open"]
  /\ IF isMountedRef
     THEN /\ isConnecting' = FALSE
          /\ timer' = [t \in Sess |->
                         IF t = s THEN "active"
                         ELSE IF t = chunkTimerRef THEN "cleared" ELSE timer[t]]
          /\ chunkTimerRef' = s
     ELSE UNCHANGED <<isConnecting, timer, chunkTimerRef>>
  /\ UNCHANGED <<qVars, encVars, compVars, uiVars>>
  /\ UNCHANGED <<isRecording, chunks, error, deepgramSocketRef,
                 mediaStreamRef, audioContextRef, processorRef, isMountedRef,
                 currentChunkRef, recordingStartTimeRef, started, pc, stream,
                 ctx, proc, now, stopRuns, teardown, doubleRelease, accepted,
                 pendingFrags, msgCount, lastFrame, markers>>

\* The recognition events a socket may deliver.
Messages ==
  [parsable : {TRUE}, hasAlt : {TRUE}, transcript : Frags \cup {<<>>},
   is_final : BOOLEAN]
  \cup {[parsable |-> TRUE, hasAlt |-> FALSE, transcript |-> <<>>, is_final |-> TRUE],
        [parsable |-> FALSE, hasAlt |-> FALSE, transcript |-> <<>>, is_final |-> FALSE]}

\* An onmessage that also takes partial results.
AcceptsPartial(m) == m.parsable /\ m.hasAlt /\ m.transcript # <<>>

\* The condition under which onmessage appends to the accumulator.
Accepts(m) == m.parsable /\ m.hasAlt /\ m.transcript # <<>> /\ m.is_final

\* deepgramSocket.onmessage: a message event fires only on an open socket.
SockMessage(s, m) ==
  /\ sock[s] = "open"
  /\ IF isMountedRef /\ Accepts(m)
     THEN /\ msgCount < MaxMsgs
          /\ msgCount' = msgCount + 1
          /\ currentChunkRef' = Trim(currentChunkRef \o <<Space>> \o m.transcript)
          /\ accepted' = Append(accepted, m.transcript)
          /\ pendingFrags' = Append(pendingFrags, m.transcript)
     ELSE UNCHANGED <<currentChunkRef, accepted, pendingFrags, msgCount>>
  /\ UNCHANGED <<qVars, encVars, compVars, uiVars>>
  /\ UNCHANGED <<isRecording, chunks, isConnecting, error, deepgramSocketRef,
                 mediaStreamRef, audioContextRef, processorRef, isMountedRef,
                 chunkTimerRef, recordingStartTimeRef, started, pc, stream,
                 ctx, proc, sock, timer, now, stopRuns, teardown,
                 doubleRelease, lastFrame, markers>>

\* An error handling that connects the same client again.
ReconnectOnError(st) == IF st = "failing" THEN "closed" ELSE "connecting"

\* The state of a socket once its error event has fired: the close event of
\* a transport error is still to come, a connection failed by close() is
\* closed.
OnErrorState(st) == IF st = "failing" THEN "closed" ELSE "errored"

\* deepgramSocket.onerror: a transport error on socket s, or the error event
\* of a connection that close() failed.
SockError(s) ==
  /\ sock[s] \in {"connecting", "open", "failing"}
  /\ sock' = [sock EXCEPT ![s] = OnErrorState(@)]
  /\ error' = IF isMountedRef THEN "Deepgram connection error" ELSE error
  /\ UNCHANGED <<qVars, encVars, compVars, uiVars>>
  /\ UNCHANGED <<isRecording, chunks, isConnecting, deepgramSocketRef,
                 mediaStreamRef, audioContextRef, processorRef, isMountedRef,
                 currentChunkRef, chunkTimerRef, recordingStartTimeRef,
                 started, pc, stream, ctx, proc, timer, now, stopRuns,
                 teardown, doubleRelease, accepted, pendingFrags, msgCount,
                 lastFrame, markers>>

\* The close event that follows a transport error on socket s (no handler
\* is installed).
SockClosed(s) ==
  /\ sock[s] = "errored"
  /\ sock' = [sock EXCEPT ![s] = "lost"]
  /\ UNCHANGED <<qVars, encVars, compVars, uiVars>>
  /\ UNCHANGED <<isRecording, chunks, isConnecting, error, deepgramSocketRef,
                 mediaStreamRef, audioContextRef, processorRef, isMountedRef,
                 currentChunkRef, chunkTimerRef, recordingStartTimeRef,
                 started, pc, stream, ctx, proc, timer, now, stopRuns,
                 teardown, doubleRelease, accepted, pendingFrags, msgCount,
                 lastFrame, markers>>

\* A readyState test that only refuses a closed socket.
ShouldSendUnlessClosed(st) == st \notin {"lost", "closed"}

\* The readyState test of onaudioprocess.
ShouldSend(st) == st = "open"

\* processor.onaudioprocess of session s: the node is connected and its
\* context runs; the frame is sent on the session's own socket or dropped.
AudioProcess(s) ==
  /\ proc[s] = "connected"
  /\ ctx[s] = "running"
  /\ lastFrame' = [state |-> sock[s], sent |-> ShouldSend(sock[s])]
  /\ UNCHANGED <<qVars, encVars, compVars, uiVars>>
  /\ UNCHANGED <<isRecording, chunks, isConnecting, error, deepgramSocketRef,
                 mediaStreamRef, audioContextRef, processorRef, isMountedRef,
                 currentChunkRef, chunkTimerRef, recordingStartTimeRef,
                 started, pc, stream, ctx, proc, sock, timer, now, stopRuns,
                 teardown, doubleRelease, accepted, pendingFrags, msgCount,
                 markers>>

\* The setInterval callback of timer t, and the render that follows it.
TimerTick(t) ==
  /\ timer[t] = "active"
  /\ IF Trim(currentChunkRef) # <<>>
     THEN /\ currentChunkRef' = <<>>
          /\ \E when \in UpdaterRuns :
               chunks' = IF when = "eager"
                         THEN SpeechUpdater(chunks, currentChunkRef, recordingStartTimeRef,
                                            now, "tick", pendingFrags)
                         ELSE SpeechUpdater(chunks, currentChunkRef', recordingStartTimeRef,
                                            now, "tick", pendingFrags)
          /\ pendingFrags' = <<>>
     ELSE UNCHANGED <<chunks, currentChunkRef, pendingFrags>>
  /\ UNCHANGED <<qVars, encVars, compVars, uiVars>>
  /\ UNCHANGED <<isRecording, isConnecting, error, deepgramSocketRef,
                 mediaStreamRef, audioContextRef, processorRef, isMountedRef,
                 chunkTimerRef, recordingStartTimeRef, started, pc, stream,
                 ctx, proc, sock, timer, now, stopRuns, teardown,
                 doubleRelease, accepted, msgCount, lastFrame,
                 markers>>

\* The text of a marker: `Q${questionNumber}: ${questionText}`.
MarkerText(questionText) == <<"Q", "1", ":", Space>> \o questionText

\* An updater that starts the list over with the marker.
MarkerOnly(prev, marker) == <<marker>>

\* The updater of addQuestionMarker: (prev) => [...prev, marker].
MarkerUpdater(prev, marker) == Append(prev, marker)

\* addQuestionMarker, called through the imperative handle.
AddQuestionMarker(questionText) ==
  /\ markers < MaxMarkers
  /\ markers' = markers + 1
  /\ chunks' = MarkerUpdater(chunks,
       MkChunk(MarkerText(questionText), getElapsedTime(recordingStartTimeRef, now),
               "question", "marker", <<>>))
  /\ UNCHANGED <<qVars, encVars, compVars, uiVars>>
  /\ UNCHANGED <<isRecording, isConnecting, error, deepgramSocketRef,
                 mediaStreamRef, audioContextRef, processorRef, isMountedRef,
                 currentChunkRef, chunkTimerRef, recordingStartTimeRef,
                 started, pc, stream, ctx, proc, sock, timer, now, stopRuns,
                 teardown, doubleRelease, accepted, pendingFrags, msgCount,
                 lastFrame>>

\* The wall clock advances.
Advance ==
  /\ now < TimeStep * (MaxAdvances + 1)
  /\ now' = now + TimeStep
  /\ UNCHANGED <<qVars, encVars, compVars, uiVars>>
  /\ UNCHANGED <<isRecording, chunks, isConnecting, error, deepgramSocketRef,
                 mediaStreamRef, audioContextRef, processorRef, isMountedRef,
                 currentChunkRef, chunkTimerRef, recordingStartTimeRef,
                 started, pc, stream, ctx, proc, sock, timer, stopRuns,
                 teardown, doubleRelease, accepted, pendingFrags, msgCount,
                 lastFrame, markers>>

Next ==
  \/ Start
  \/ Stop
  \/ StopEffect
  \/ \E s \in Sess, ok \in BOOLEAN, hasKey \in BOOLEAN : FetchResolve(s, ok, hasKey)
  \/ \E s \in Sess, granted \in BOOLEAN : MicResolve(s, granted)
  \/ \E s \in Sess : SockOpen(s)
  \/ \E s \in Sess, m \in Messages : SockMessage(s, m)
  \/ \E s \in Sess : SockError(s)
  \/ \E s \in Sess : SockClosed(s)
  \/ \E s \in Sess : AudioProcess(s)
  \/ \E t \in Sess : TimerTick(t)
  \/ \E q \in {<<>>} : AddQuestionMarker(q)
  \/ Advance

Spec == Init /\ [][Next]_vars

\* The same program without the wall clock and the question markers, which
\* only decide the timestamps and the marker chunks of the transcript.
NextCapture ==
  \/ Start
  \/ Stop
  \/ StopEffect
  \/ \E s \in Sess, ok \in BOOLEAN, hasKey \in BOOLEAN : FetchResolve(s, ok, hasKey)
  \/ \E s \in Sess, granted \in BOOLEAN : MicResolve(s, granted)
  \/ \E s \in Sess : SockOpen(s)
  \/ \E s \in Sess, m \in Messages : SockMessage(s, m)
  \/ \E s \in Sess : SockError(s)
  \/ \E s \in Sess : SockClosed(s)
  \/ \E s \in Sess : AudioProcess(s)
  \/ \E t \in Sess : TimerTick(t)

SpecCapture == Init /\ [][NextCapture]_vars

\* The first start of recording after the mount.
FirstStart == started = 0 /\ Start

\* One recording lifetime: the component is mounted, recording is started
\* once and stopped.
NextLifetime ==
  \/ FirstStart
  \/ Stop
  \/ StopEffect
  \/ \E s \in Sess, ok \in BOOLEAN, hasKey \in BOOLEAN : FetchResolve(s, ok, hasKey)
  \/ \E s \in Sess, granted \in BOOLEAN : MicResolve(s, granted)
  \/ \E s \in Sess : SockOpen(s)
  \/ \E s \in Sess, m \in Messages : SockMessage(s, m)
  \/ \E s \in Sess : SockError(s)
  \/ \E s \in Sess : SockClosed(s)
  \/ \E s \in Sess : AudioProcess(s)
  \/ \E t \in Sess : TimerTick(t)

SpecLifetime == Init /\ [][NextLifetime]_vars

\* The browser delivers the events it has queued: the close event after a
\* transport error, and the error event of a connection failed by close().
SpecLifetimeFair ==
  /\ SpecLifetime
  /\ \A s \in Sess : WF_vars(SockClosed(s))
  /\ \A s \in Sess : WF_vars(sock[s] = "failing" /\ SockError(s))

\* One recording lifetime with question markers.
NextMarked ==
  \/ FirstStart
  \/ Stop
  \/ StopEffect
  \/ \E s \in Sess, ok \in BOOLEAN, hasKey \in BOOLEAN : FetchResolve(s, ok, hasKey)
  \/ \E s \in Sess, granted \in BOOLEAN : MicResolve(s, granted)
  \/ \E s \in Sess : SockOpen(s)
  \/ \E s \in Sess, m \in Messages : SockMessage(s, m)
  \/ \E t \in Sess : TimerTick(t)
  \/ \E q \in {<<>>} : AddQuestionMarker(q)

SpecMarked == Init /\ [][NextMarked]_vars

\* ------------------------------------------------------------ completion
\* The texts of a chunk sequence.
Texts(cs) == [i \in 1..Len(cs) |-> cs[i].text]

\* A report of the last chunk only.
LastChunkText(cs) == cs[Len(cs)].text

\* chunks.map((chunk) => chunk.text).join(" ")
fullTranscript(cs) == JoinSp(Texts(cs))

\* The completion effect has to run: one of its dependencies (isRecording,
\* chunks, onTranscriptComplete) differs from the render it ran for last.
EffectPending == cbChanged \/ lastDeps # <<isRecording, chunks>>

\* The render the pending effect belongs to.  A change of the isRecording
\* prop is rendered with the chunk state as it was; the setChunks calls of
\* the recording effect of that render take effect in the render after it.
Rendered ==
  IF lastDeps[1] # isRecording THEN <<isRecording, lastDeps[2]>>
  ELSE <<isRecording, chunks>>

\* The inline onTranscriptComplete of InterviewScreen: the answer is set,
\* recording is set off (it is off already) and a follow-up timeout is
\* scheduled.  The screen renders again, with a new inline function, only
\* if a state value changed.
onTranscriptComplete(text) ==
  /\ completedWith' = <<text>>
  /\ currentAnswer' = text
  /\ followUpTimers' = followUpTimers + 1
  /\ cbChanged' = (currentAnswer # text)
  /\ UNCHANGED showFollowUps

\* The transcript-completion effect of one render.
CompletionEffect ==
  /\ EffectPending
  /\ lastDeps' = Rendered
  /\ IF ~Rendered[1] /\ Len(Rendered[2]) > 0
     THEN onTranscriptComplete(fullTranscript(Rendered[2]))
     ELSE /\ cbChanged' = FALSE
          /\ UNCHANGED <<completedWith, currentAnswer, showFollowUps, followUpTimers>>
  /\ UNCHANGED <<tvVars, qVars, encVars, uiVars>>

\* A follow-up timeout fires: setShowFollowUps(true) and
\* setFollowUpAnswers(prev => ({...prev, 0: ""})), a new object every time,
\* so the screen renders again.
FollowUpTimeout ==
  /\ followUpTimers > 0
  /\ followUpTimers' = followUpTimers - 1
  /\ showFollowUps' = TRUE
  /\ cbChanged' = TRUE
  /\ UNCHANGED <<lastDeps, completedWith, currentAnswer>>
  /\ UNCHANGED <<tvVars, qVars, encVars, uiVars>>

\* One recording lifetime, with question markers, inside InterviewScreen.
\* The effects of a committed render run before any later event is handled.
NextCompletion ==
  \/ EffectPending /\ CompletionEffect
  \/ ~EffectPending /\ NextLifetime
  \/ ~EffectPending /\ \E q \in {<<>>} : AddQuestionMarker(q)
  \/ ~EffectPending /\ FollowUpTimeout

SpecCompletion == Init /\ [][NextCompletion]_vars

\* React runs the effects of a committed render, and the browser fires a
\* timeout that has been set.
SpecCompletionFair ==
  /\ SpecCompletion
  /\ WF_vars(EffectPending /\ CompletionEffect)
  /\ WF_vars(~EffectPending /\ FollowUpTimeout)

\* ------------------------------------------------------------ questions
\* QuestionOrchestrator and SessionPoller (spec.md 4.5, 4.6).  A question is
\* identified by its order, 1..NumQuestions.
Questions == 1..NumQuestions

\* markDone schedules the next question when auto-advance is enabled.
AutoAdvanceEnabled == TRUE

Active(st) == {q \in Questions : st[q] = "active"}

\* An activation that leaves the question that was active as it is.
ActivateOnly(st, id) == [st EXCEPT ![id] = "active"]

\* A demotion that resets every status.
DemotedAll(s) == "pending"

\* The status of a question other than the one being activated.
Demoted(s) == IF s = "active" THEN "pending" ELSE s

\* The statuses after activating id: every other active question is demoted.
Activate(st, id) ==
  [q \in Questions |-> IF q = id THEN "active" ELSE Demoted(st[q])]

\* The questions whose status differs between st1 and st2.
Changed(st1, st2) == {q \in Questions : st1[q] # st2[q]}

\* A transition API that takes every status change.
AllowedAny(from, to) == TRUE

\* The allowed status transitions.
Allowed(from, to) ==
  <<from, to>> \in {<<"pending", "active">>, <<"active", "done">>,
                    <<"active", "skipped">>, <<"active", "pending">>}

\* setActive(id): pending -> active, demoting the active question; any other
\* status of the target is an InvalidTransition and changes nothing.
setActive(id) ==
  IF Allowed(qStatus[id], "active")
  THEN /\ qStatus' = Activate(qStatus, id)
       /\ unacked' = unacked \cup Changed(qStatus, Activate(qStatus, id))
       /\ lastResult' = "ok"
  ELSE /\ lastResult' = "InvalidTransition"
       /\ UNCHANGED <<qStatus, unacked>>

\* The user clicks a question of the panel.
SetActive(id) ==
  /\ setActive(id)
  /\ UNCHANGED <<advanceTimer, remote, snapshot>>
  /\ UNCHANGED <<tvVars, encVars, compVars, uiVars>>

\* Every question that follows id in order, whatever its status.
AnyAfter(st, id) == {q \in Questions : q > id}

\* The pending questions that follow id in order.
PendingAfter(st, id) == {q \in Questions : q > id /\ st[q] = "pending"}

\* A selection that wraps around to the first pending question.
NextPendingWrap(st, id) ==
  LET P == {q \in Questions : st[q] = "pending"}
  IN  IF P = {} THEN Null ELSE CHOOSE q \in P : \A r \in P : q <= r

\* The question auto-advance selects after id is done, or Null.
NextPending(st, id) ==
  IF PendingAfter(st, id) = {} THEN Null
  ELSE CHOOSE q \in PendingAfter(st, id) : \A r \in PendingAfter(st, id) : q <= r

\* markDone(id): active -> done, then the debounced auto-advance is scheduled.
markDone(id) ==
  IF Allowed(qStatus[id], "done")
  THEN /\ qStatus' = [qStatus EXCEPT ![id] = "done"]
       /\ unacked' = unacked \cup {id}
       /\ advanceTimer' = IF AutoAdvanceEnabled /\ NextPending(qStatus', id) # Null
                          THEN NextPending(qStatus', id) ELSE advanceTimer
       /\ lastResult' = "ok"
  ELSE /\ lastResult' = "InvalidTransition"
       /\ UNCHANGED <<qStatus, unacked, advanceTimer>>

\* The user marks a question done.
MarkDone(id) ==
  /\ markDone(id)
  /\ UNCHANGED <<remote, snapshot>>
  /\ UNCHANGED <<tvVars, encVars, compVars, uiVars>>

\* markSkipped(id): active -> skipped, without auto-advance.
markSkipped(id) ==
  IF Allowed(qStatus[id], "skipped")
  THEN /\ qStatus' = [qStatus EXCEPT ![id] = "skipped"]
       /\ unacked' = unacked \cup {id}
       /\ lastResult' = "ok"
  ELSE /\ lastResult' = "InvalidTransition"
       /\ UNCHANGED <<qStatus, unacked>>

\* The user skips a question.
MarkSkipped(id) ==
  /\ markSkipped(id)
  /\ UNCHANGED <<advanceTimer, remote, snapshot>>
  /\ UNCHANGED <<tvVars, encVars, compVars, uiVars>>

\* The debounce delay elapses: the scheduled setActive runs.
AutoAdvance ==
  /\ advanceTimer # Null
  /\ setActive(advanceTimer)
  /\ advanceTimer' = Null
  /\ UNCHANGED <<remote, snapshot>>
  /\ UNCHANGED <<tvVars, encVars, compVars, uiVars>>

\* The local writes a snapshot has not acknowledged: the snapshot still
\* reports another status for the question.
StillUnacked(snap) == {q \in unacked : snap[q] # qStatus[q]}

\* Last writer wins: every status is the remote one.
ReconciledRemoteWins(snap) == snap

\* Per question, the local pending write wins until acknowledged; every other
\* status is the remote one.
Reconciled(snap) ==
  [q \in Questions |-> IF q \in StillUnacked(snap) THEN qStatus[q] ELSE snap[q]]

\* An activation taken over from the remote store obeys the activation rule:
\* when a kept local write holds the active question, the remote one is
\* demoted to pending (the user's transition takes precedence).
ResolveActive(st, keep) ==
  IF Active(st) \cap keep # {}
  THEN [q \in Questions |-> IF st[q] = "active" /\ q \notin keep THEN "pending" ELSE st[q]]
  ELSE st

\* merge(remoteQuestions).
merge(snap) == ResolveActive(Reconciled(snap), StillUnacked(snap))

\* The statuses the local client has written reach the remote store.
Sync ==
  /\ remote # qStatus
  /\ remote' = qStatus
  /\ UNCHANGED <<qStatus, unacked, advanceTimer, snapshot, lastResult>>
  /\ UNCHANGED <<tvVars, encVars, compVars, uiVars>>

\* SessionPoller tick: the remote snapshot is fetched.
PollFetch ==
  /\ snapshot = NoSnapshot
  /\ snapshot' = remote
  /\ UNCHANGED <<qStatus, unacked, advanceTimer, remote, lastResult>>
  /\ UNCHANGED <<tvVars, encVars, compVars, uiVars>>

\* A failure handler that drops the local statuses.
ResetOnFailure(st) == [q \in Questions |-> "pending"]

\* The local statuses after a failed poll: no loss of local state.
AfterFailedPoll(st) == st

\* The poll in flight fails: the failure is logged, nothing else changes, and
\* the poller is idle until its next tick.
PollFail ==
  /\ snapshot # NoSnapshot
  /\ snapshot' = NoSnapshot
  /\ lastResult' = "failed"
  /\ qStatus' = AfterFailedPoll(qStatus)
  /\ UNCHANGED <<unacked, advanceTimer, remote>>
  /\ UNCHANGED <<tvVars, encVars, compVars, uiVars>>

\* The poll in flight succeeds: its snapshot is merged.
PollMerge ==
  /\ snapshot # NoSnapshot
  /\ qStatus' = merge(snapshot)
  /\ unacked' = StillUnacked(snapshot)
  /\ snapshot' = NoSnapshot
  /\ lastResult' = "merged"
  /\ UNCHANGED <<advanceTimer, remote>>
  /\ UNCHANGED <<tvVars, encVars, compVars, uiVars>>

NextQuestions ==
  \/ \E id \in Questions : SetActive(id)
  \/ \E id \in Questions : MarkDone(id)
  \/ \E id \in Questions : MarkSkipped(id)
  \/ AutoAdvance
  \/ Sync
  \/ PollFetch
  \/ PollFail
  \/ PollMerge

SpecQuestions == Init /\ [][NextQuestions]_vars

\* The transition API alone: user actions and the debounced auto-advance,
\* with no poll.
NextTransitions ==
  \/ \E id \in Questions : SetActive(id)
  \/ \E id \in Questions : MarkDone(id)
  \/ \E id \in Questions : MarkSkipped(id)
  \/ AutoAdvance

SpecTransitions == Init /\ [][NextTransitions]_vars

\* The poller beside one recording lifetime: the transcript is captured while
\* the user activates questions and polls of the remote store, which has not
\* received the user's writes yet, succeed or fail.
NextPolling ==
  \/ NextLifetime
  \/ \E id \in Questions : SetActive(id)
  \/ PollFetch
  \/ PollFail
  \/ PollMerge

SpecPolling == Init /\ [][NextPolling]_vars

\* The poller's interval timer keeps firing: an idle poller fetches again.
SpecPollingFair == SpecPolling /\ WF_vars(PollFetch)

\* ------------------------------------------------------------ question panel
\* QuestionListPanel (Card.tsx), rendered with the statuses of the
\* orchestrator; its callbacks are the orchestrator's transitions.
\* The questions the panel renders.
visibleQuestions == {q \in Questions : qStatus[q] # "skipped"}

\* A callback call, with the status the question was rendered with.
Callback(cb, id) == [cb |-> cb, id |-> id, status |-> qStatus[id]]

\* A button click that always bubbles to the question item.
DispatchedBubbling(buttonCb, stopped) ==
  <<buttonCb, [buttonCb EXCEPT !.cb = "onSetActive"]>>

\* The callbacks of a click on a button inside a question item: the button's
\* own, then the item's onSetActive unless e.stopPropagation() was called.
Dispatched(buttonCb, stopped) ==
  IF stopped THEN <<buttonCb>>
  ELSE <<buttonCb, [buttonCb EXCEPT !.cb = "onSetActive"]>>

\* A click on a question item.
ClickItem(id) ==
  /\ id \in visibleQuestions
  /\ issued' = <<Callback("onSetActive", id)>>
  /\ setActive(id)
  /\ UNCHANGED <<advanceTimer, remote, snapshot>>
  /\ UNCHANGED <<currentQuestionIndex, answers, isInterviewComplete>>
  /\ UNCHANGED <<tvVars, encVars, compVars>>

\* A click on Mark Done, which only an active question shows.
ClickMarkDone(id) ==
  /\ id \in visibleQuestions
  /\ qStatus[id] = "active"
  /\ issued' = Dispatched(Callback("onMarkDone", id), TRUE)
  /\ markDone(id)
  /\ UNCHANGED <<remote, snapshot>>
  /\ UNCHANGED <<currentQuestionIndex, answers, isInterviewComplete>>
  /\ UNCHANGED <<tvVars, encVars, compVars>>

\* A click on Skip, which only an active question shows.
ClickSkip(id) ==
  /\ id \in visibleQuestions
  /\ qStatus[id] = "active"
  /\ issued' = Dispatched(Callback("onSkip", id), TRUE)
  /\ markSkipped(id)
  /\ UNCHANGED <<advanceTimer, remote, snapshot>>
  /\ UNCHANGED <<currentQuestionIndex, answers, isInterviewComplete>>
  /\ UNCHANGED <<tvVars, encVars, compVars>>

NextPanel ==
  \/ \E id \in Questions : ClickItem(id)
  \/ \E id \in Questions : ClickMarkDone(id)
  \/ \E id \in Questions : ClickSkip(id)
  \/ AutoAdvance

SpecPanel == Init /\ [][NextPanel]_vars

\* ------------------------------------------------------------ interview
\* InterviewScreen with the typed answer, and the PMF store (pmfReducer).
\* questions has NumQuestions entries; the id of questions[i] is i + 1.
QuestionId(index) == index + 1

\* What the interviewer may type into the answer box.
AnswerTexts == {<<>>, <<Space>>, <<"a">>, <<"b", Space>>}

\* pmfReducer, ADD_ANSWER
AddAnswer(ans, answer) == Append(ans, answer)

\* Position in ans of answers.find(a => a.questionId === currentQuestion.id),
\* 0 when there is none.
existingAnswer(ans, index) ==
  LET hits == {i \in DOMAIN ans : ans[i].questionId = QuestionId(index)}
  IN  IF hits = {} THEN 0 ELSE CHOOSE i \in hits : \A j \in hits : i <= j

\* handleSaveAnswer: the answers after it ran.
handleSaveAnswer ==
  IF Trim(currentAnswer) = <<>> THEN answers
  ELSE AddAnswer(answers, [questionId |-> QuestionId(currentQuestionIndex),
                           answer |-> Trim(currentAnswer)])

\* The effect on [currentQuestionIndex, existingAnswer]: the answer box after
\* the render that follows a handler.
AnswerBox(ans, index) ==
  IF index = currentQuestionIndex
     /\ existingAnswer(ans, index) = existingAnswer(answers, currentQuestionIndex)
  THEN currentAnswer
  ELSE IF existingAnswer(ans, index) # 0 THEN ans[existingAnswer(ans, index)].answer
  ELSE <<>>

\* An index step without the range check.
NextIndexUnguarded(index) == index + 1

\* handleNext: the index after it.
NextIndex(index) == IF index < NumQuestions - 1 THEN index + 1 ELSE index

\* handlePrevious: the index after it.
PreviousIndex(index) == IF index > 0 THEN index - 1 ELSE index

\* A handler saved the answer and went to a question; the screen rendered.
SaveAndGo(index) ==
  /\ ~isInterviewComplete
  /\ Len(handleSaveAnswer) <= MaxAnswers
  /\ answers' = handleSaveAnswer
  /\ currentQuestionIndex' = index
  /\ currentAnswer' = AnswerBox(handleSaveAnswer, index)
  /\ showFollowUps' = IF currentAnswer' = currentAnswer /\ index = currentQuestionIndex
                      THEN showFollowUps ELSE FALSE
  /\ UNCHANGED <<issued, isInterviewComplete>>
  /\ UNCHANGED <<lastDeps, cbChanged, completedWith, followUpTimers>>
  /\ UNCHANGED <<tvVars, qVars, encVars>>

\* The interviewer edits the answer box.
TypeAnswer(text) ==
  /\ ~isInterviewComplete
  /\ currentAnswer' = text
  /\ UNCHANGED <<lastDeps, cbChanged, completedWith, showFollowUps, followUpTimers>>
  /\ UNCHANGED <<tvVars, qVars, encVars, uiVars>>

handleNext == SaveAndGo(NextIndex(currentQuestionIndex))

handlePrevious == SaveAndGo(PreviousIndex(currentQuestionIndex))

\* A click on a question of the sidebar.
SidebarClick(index) == SaveAndGo(index)

\* handleEndInterview: save, completeInterview, and leave for the results.
handleEndInterview ==
  /\ ~isInterviewComplete
  /\ Len(handleSaveAnswer) <= MaxAnswers
  /\ answers' = handleSaveAnswer
  /\ isInterviewComplete' = TRUE
  /\ UNCHANGED <<issued, currentQuestionIndex>>
  /\ UNCHANGED <<tvVars, qVars, encVars, compVars>>

NextInterview ==
  \/ \E text \in AnswerTexts : TypeAnswer(text)
  \/ handleNext
  \/ handlePrevious
  \/ \E index \in 0..(NumQuestions - 1) : SidebarClick(index)
  \/ handleEndInterview

SpecInterview == Init /\ [][NextInterview]_vars

\* ------------------------------------------------------------ PCM encoder
\* A sample of a Float32Array: the number num / SampleDen, or NaN.
Samples ==
  [nan : {FALSE}, num : -MaxSample..MaxSample] \cup {[nan |-> TRUE, num |-> 0]}

Min(a, b) == IF a <= b THEN a ELSE b
Max(a, b) == IF a >= b THEN a ELSE b

\* An encoder that scales the sample as it comes.
NoClamp(num) == num

\* Math.max(-1, Math.min(1, x)), on numerators.
Clamp(num) == Max(-SampleDen, Min(SampleDen, num))

\* s < 0 ? s * 0x8000 : s * 0x7fff, as a numerator over SampleDen.
ScaleNeg == 32768
ScalePos == 32767
Scale(num) == IF num < 0 THEN num * ScaleNeg ELSE num * ScalePos

\* ToInt16 of DataView.setInt16: truncate toward zero, then wrap to 16 bits.
Trunc(num, den) == IF num >= 0 THEN num \div den ELSE -((-num) \div den)
ToInt16(v) == LET m == v % 65536 IN IF m >= 32768 THEN m - 65536 ELSE m

\* The int16 written for one sample; NaN compares false with 0, scales to
\* NaN and is written as 0.
EncodeSample(x) ==
  IF x.nan THEN 0 ELSE ToInt16(Trunc(Scale(Clamp(x.num)), SampleDen))

\* view.setInt16(i * 2, v, true): the two bytes of v, low byte first.
Int16Bytes(v) == LET u == v % 65536 IN <<u % 256, u \div 256>>

RECURSIVE floatTo16BitPCM(_)
floatTo16BitPCM(float32Array) ==
  IF float32Array = <<>> THEN <<>>
  ELSE Int16Bytes(EncodeSample(Head(float32Array))) \o floatTo16BitPCM(Tail(float32Array))

\* The frames of at most MaxFrame samples.
Frames == UNION {[1..n -> Samples] : n \in 0..MaxFrame}

\* onaudioprocess encodes the frame it was handed.
Encode(frame) ==
  /\ pcmIn' = frame
  /\ pcmOut' = floatTo16BitPCM(frame)
  /\ UNCHANGED <<tvVars, qVars, compVars, uiVars>>

NextEncoder == \E frame \in Frames : Encode(frame)

SpecEncoder == Init /\ [][NextEncoder]_vars

\* ------------------------------------------------------------ claims
\* Session s has been stopped: a later session was started, or it is the
\* latest one and recording is off.
Stopped(s) == s < started \/ (s = started /\ ~isRecording)

LiveStreams == {s \in Sess : stream[s] = "live"}
LiveContexts == {s \in Sess : ctx[s] = "running"}
LiveSockets == {s \in Sess : sock[s] \in {"connecting", "open"}}

\* The texts of the speech chunks, in order.
SpeechTexts == [i \in 1..Len(SelectSeq(chunks, LAMBDA c : c.type # "question")) |->
                  SelectSeq(chunks, LAMBDA c : c.type # "question")[i].text]

\* C1: at most one audio session is live at any time: never more than one
\* un-stopped microphone stream, more than one un-closed audio context, or
\* more than one un-closed transcription socket.
C1_AtMostOneLiveSession ==
  /\ Cardinality(LiveStreams) <= 1
  /\ Cardinality(LiveContexts) <= 1
  /\ Cardinality(LiveSockets) <= 1

C3_NoEmptyChunk == \A i \in DOMAIN chunks : Trim(chunks[i].text) # <<>>

\* C4: no trailing text is lost on stop: once the stop has been processed,
\* the words of the speech chunks are exactly the words of the fragments
\* accepted during the recording, in order, each once.
C4_NoTextLostOnStop ==
  (~isRecording /\ stopRuns >= 1) =>
     Words(JoinSp(SpeechTexts)) = Words(JoinSp(accepted))

\* C5: the chunk a timer tick appends is cut from one or more fragments and
\* its text is those fragments, in arrival order, joined by single spaces and
\* trimmed.
C5_TickChunkIsJoinedFragments ==
  \A i \in DOMAIN chunks :
     chunks[i].src = "tick" =>
        /\ chunks[i].frags # <<>>
        /\ chunks[i].text = Trim(JoinSp(chunks[i].frags))

\* C6: the elapsedTime values of the chunk sequence are non-decreasing in
\* list order.
C6_ElapsedTimeNonDecreasing ==
  \A i, j \in DOMAIN chunks : i < j => TimeLeq(chunks[i].ts, chunks[j].ts)

\* C7: when a start routine that was stopped while suspended resumes, it
\* creates no audio context, no socket and no timer, and holds no live
\* microphone stream.
C7_StoppedStartHoldsNothing ==
  [][\A s \in Sess :
        (Stopped(s) /\ pc[s] \in Suspended /\ pc'[s] \notin Suspended) =>
           /\ ctx'[s] = "none"
           /\ sock'[s] = "none"
           /\ timer'[s] = "none"
           /\ stream'[s] # "live"]_vars

\* The place of each teardown step in the order the claim states.
StepRank(step) ==
  CASE step = "timer" -> 1
    [] step = "socket" -> 2
    [] step = "processor" -> 3
    [] step = "tracks" -> 4
    [] step = "context" -> 5
    [] OTHER -> 6

\* C8: a stop performs its teardown steps in the order timer, socket,
\* processor, tracks, context, final flush; and a session whose processor
\* stop has disconnected has no connecting or open socket left, so no audio
\* callback can send on a socket that stop has closed.
C8_TeardownOrder ==
  /\ \A i, j \in DOMAIN teardown : i < j => StepRank(teardown[i]) < StepRank(teardown[j])
  /\ \A s \in Sess : proc[s] = "disconnected" => s \notin LiveSockets

C8_Witness == Len(teardown) = 6

C10_SendOnlyWhenOpen ==
  lastFrame.state # "none" => (lastFrame.sent <=> lastFrame.state = "open")

C10_Witness == lastFrame.state \in {"connecting", "errored", "lost"} /\ ~lastFrame.sent

\* A recognition event that is final and carries a non-empty transcript.
FinalWithText(m) == m.parsable /\ m.hasAlt /\ m.is_final /\ m.transcript # <<>>

\* C11: only recognition events with is_final = true and a non-empty
\* transcript change the accumulator: the delivery of a partial event, of an
\* event without a transcript alternative or of an unparsable message leaves
\* the accumulator and the chunk sequence unchanged, and the accumulator only
\* receives text through the delivery of a final event with text.
C11_OnlyFinalChangesAccumulator ==
  [][/\ \A s \in Sess, m \in Messages :
          (SockMessage(s, m) /\ ~FinalWithText(m)) => UNCHANGED <<currentChunkRef, chunks>>
     /\ (currentChunkRef' # currentChunkRef /\ currentChunkRef' # <<>>) =>
          \E s \in Sess, m \in Messages : SockMessage(s, m) /\ FinalWithText(m)]_vars

C11_Witness ==
  /\ accepted # <<>>
  /\ currentChunkRef = Trim(JoinSp(accepted))
  /\ isMountedRef
  /\ \E s \in Sess : sock[s] = "open"

\* The state of the transcription client that a socket state stands for.
ClientState(st) ==
  CASE st = "connecting" -> "Connecting"
    [] st = "open" -> "Open"
    [] st \in {"errored", "failing"} -> "Errored"
    [] st \in {"lost", "closed"} -> "Closed"
    [] OTHER -> "None"

ClientMoves ==
  {<<"None", "Connecting">>, <<"Connecting", "Open">>, <<"Open", "Closed">>,
   <<"Connecting", "Errored">>, <<"Open", "Errored">>, <<"Errored", "Closed">>}

\* C12: each transcription client only moves Connecting -> Open -> Closed or
\* Connecting|Open -> Errored -> Closed (so a Closed client never becomes
\* Open again), and after a transport-level error it always reaches Closed.
C12_ClientStateMachine ==
  /\ [][\A s \in Sess :
          ClientState(sock'[s]) # ClientState(sock[s]) =>
             <<ClientState(sock[s]), ClientState(sock'[s])>> \in ClientMoves]_vars
  /\ \A s \in Sess : (sock[s] = "errored") ~> (ClientState(sock[s]) = "Closed")

C12_Witness ==
  \E s \in Sess : sock[s] = "lost" /\ error = "Deepgram connection error"

\* The socket of the current recording has had a transport error.
CurrentSocketErrored ==
  isRecording /\ deepgramSocketRef # Null /\ sock[deepgramSocketRef] \in {"errored", "lost"}

\* C13: a transport-level socket error during a recording sets the
\* user-visible error and leaves the accumulator and the chunks unchanged,
\* and once the socket of the current recording has errored no new socket is
\* created for as long as that recording goes on (no automatic reconnect).
C13_ErrorSurfacedNoReconnect ==
  [][/\ \A s \in Sess :
          (isRecording /\ sock[s] \in {"connecting", "open"} /\ sock'[s] = "errored") =>
             /\ error' = "Deepgram connection error"
             /\ UNCHANGED <<currentChunkRef, chunks>>
     /\ CurrentSocketErrored =>
          \A t \in Sess : sock[t] = "none" => sock'[t] = "none"]_vars

\* Session s holds no resource.
HoldsNothing(s) ==
  stream[s] = "none" /\ ctx[s] = "none" /\ sock[s] = "none" /\ timer[s] = "none"

\* C14: a start that fails before the connection is created (the credential
\* endpoint answers not-OK or without api_key, or the microphone request is
\* rejected) never goes on to the next step and holds nothing, and at the
\* failure the error message is set and the connecting indicator is cleared.
C14_FailedStartSurfacesError ==
  [][\A s \in Sess :
       (pc[s] \in Suspended /\ pc'[s] = "caught") =>
          /\ HoldsNothing(s)'
          /\ error' \in {"Failed to fetch Deepgram API key",
                         "Deepgram API key not configured", "Permission denied"}
          /\ ~isConnecting']_vars

\* C15: addQuestionMarker appends exactly one marker chunk at the end of the
\* chunk sequence in the step it is called in, and leaves the earlier chunks,
\* the accumulator and the flush timer unchanged.
C15_MarkerAppendedAtOnce ==
  [][markers' # markers =>
       /\ Len(chunks') = Len(chunks) + 1
       /\ SubSeq(chunks', 1, Len(chunks)) = chunks
       /\ chunks'[Len(chunks')].type = "question"
       /\ UNCHANGED <<currentChunkRef, chunkTimerRef, timer>>]_vars

C15_Witness ==
  /\ Len(chunks) >= 2
  /\ chunks[Len(chunks)].type = "question"
  /\ chunks[1].type # "question"
  /\ \E t \in Sess : timer[t] = "active"

\* The int16 value read back from bytes 2i-1 and 2i of the encoder's output.
Decoded(i) ==
  LET u == pcmOut[2 * i - 1] + 256 * pcmOut[2 * i]
  IN  IF u >= 32768 THEN u - 65536 ELSE u

\* C16: the encoder returns 2 bytes per sample; every encoded sample is a
\* signed 16-bit value; samples at or below -1 encode to -32768, samples at
\* or above 1 to 32767 and 0 to 0; and a larger sample never encodes to a
\* smaller value.
C16_EncoderClampsAndScales ==
  /\ Len(pcmOut) = 2 * Len(pcmIn)
  /\ \A k \in DOMAIN pcmOut : pcmOut[k] \in 0..255
  /\ \A i \in DOMAIN pcmIn :
       /\ Decoded(i) \in -32768..32767
       /\ ~pcmIn[i].nan =>
            /\ pcmIn[i].num <= -SampleDen => Decoded(i) = -32768
            /\ pcmIn[i].num >= SampleDen => Decoded(i) = 32767
            /\ pcmIn[i].num = 0 => Decoded(i) = 0
  /\ \A i, j \in DOMAIN pcmIn :
       (~pcmIn[i].nan /\ ~pcmIn[j].nan /\ pcmIn[i].num <= pcmIn[j].num) =>
          Decoded(i) <= Decoded(j)

C16_Witness ==
  /\ Len(pcmIn) = 2
  /\ ~pcmIn[1].nan /\ pcmIn[1].num < -SampleDen
  /\ ~pcmIn[2].nan /\ pcmIn[2].num > SampleDen
  /\ pcmOut = <<0, 128, 255, 127>>

\* The steps of PollMerge: the poll in flight ends with a merge.
MergeStep ==
  snapshot # NoSnapshot /\ snapshot' = NoSnapshot /\ lastResult' = "merged"

\* C17: a merge of a snapshot that still reports another status for a question
\* with an unacknowledged local change leaves that question's local status as
\* it is and keeps the change unacknowledged; a merge changes the status of a
\* question only when no local write for it is pending against the snapshot,
\* and a snapshot that reports the local status acknowledges the write.
C17_LocalWriteWinsUntilAcknowledged ==
  [][MergeStep =>
       \A q \in Questions :
         /\ (q \in unacked /\ snapshot[q] # qStatus[q]) =>
               (qStatus'[q] = qStatus[q] /\ q \in unacked')
         /\ (q \in unacked /\ snapshot[q] = qStatus[q]) => q \notin unacked'
         /\ qStatus'[q] # qStatus[q] =>
               ~(q \in unacked /\ snapshot[q] # qStatus[q])]_vars

C17_Witness ==
  /\ lastResult = "merged"
  /\ \E q \in unacked : qStatus[q] = "active" /\ remote[q] = "pending"

\* C18: setActive on a question that is not pending, and markDone or
\* markSkipped on a question that is not active, is reported as
\* InvalidTransition and leaves the status of every question unchanged; a
\* step of the transition API changes a status only along pending -> active,
\* active -> done, active -> skipped or active -> pending.
C18_IllegalTransitionRejected ==
  [][/\ \A id \in Questions :
          ( \/ qStatus[id] # "pending" /\ SetActive(id)
            \/ qStatus[id] # "pending" /\ advanceTimer = id /\ AutoAdvance
            \/ qStatus[id] # "active" /\ (MarkDone(id) \/ MarkSkipped(id)) )
          => (lastResult' = "InvalidTransition" /\ qStatus' = qStatus)
     /\ \A q \in Questions :
            qStatus'[q] # qStatus[q] =>
              <<qStatus[q], qStatus'[q]>> \in
                 {<<"pending", "active">>, <<"active", "done">>,
                  <<"active", "skipped">>, <<"active", "pending">>}]_vars

C18_Witness ==
  /\ lastResult = "InvalidTransition"
  /\ \E q \in Questions : qStatus[q] = "done"
  /\ \E q \in Questions : qStatus[q] = "skipped"

\* C19: markDone(id) schedules the pending question with the lowest order
\* among those that follow id; when the debounce delay elapses, a question
\* becomes active only if it is the scheduled one, it is pending, and it is
\* the lowest-order pending question after a done question; done and skipped
\* questions keep their status.
C19_AutoAdvanceLowestPending ==
  [][/\ \A id \in Questions :
          (qStatus[id] = "active" /\ qStatus'[id] = "done") =>
             \A q \in Questions :
               (q > id /\ qStatus'[q] = "pending"
                  /\ \A r \in Questions : (id < r /\ r < q) => qStatus'[r] # "pending")
               => advanceTimer' = q
     /\ (advanceTimer # Null /\ advanceTimer' = Null) =>
          \A q \in Questions :
            /\ qStatus[q] \in {"done", "skipped"} => qStatus'[q] = qStatus[q]
            /\ (qStatus'[q] = "active" /\ qStatus[q] # "active") =>
                 /\ q = advanceTimer
                 /\ qStatus[q] = "pending"
                 /\ \E d \in Questions :
                      /\ d < q /\ qStatus[d] = "done"
                      /\ \A r \in Questions : (d < r /\ r < q) => qStatus[r] # "pending"]_vars

C19_Witness ==
  /\ qStatus[1] = "done" /\ qStatus[2] = "active" /\ qStatus[3] = "skipped"
  /\ advanceTimer = Null /\ lastResult = "ok"
  /\ unacked = {1, 2, 3}

\* C20: setActive(id) on a pending question makes it active, turns every
\* other question that was active into pending, and leaves every other
\* question, done and skipped ones included, with the status it had.
C20_SetActiveDemotesOthers ==
  [][\A id \in Questions :
       (qStatus[id] = "pending" /\ SetActive(id)) =>
          /\ qStatus'[id] = "active"
          /\ lastResult' = "ok"
          /\ \A q \in Questions \ {id} :
               qStatus'[q] = IF qStatus[q] = "active" THEN "pending" ELSE qStatus[q]]_vars

C20_Witness ==
  /\ lastResult = "ok"
  /\ \E a, p, d \in Questions :
       /\ qStatus[a] = "active"
       /\ qStatus[p] = "pending" /\ p \in unacked
       /\ qStatus[d] = "done"

\* C21: markDone on the question with the highest order schedules no
\* auto-advance and activates no question.
C21_LastQuestionNoAdvance ==
  [][(qStatus[NumQuestions] = "active" /\ qStatus'[NumQuestions] = "done") =>
       /\ advanceTimer' = advanceTimer
       /\ \A q \in Questions : qStatus'[q] # "active"]_vars

C21_Witness ==
  /\ qStatus[NumQuestions] = "done"
  /\ \A q \in Questions \ {NumQuestions} : qStatus[q] = "pending"
  /\ unacked = {NumQuestions}
  /\ advanceTimer = Null
  /\ lastResult = "ok"

\* The steps of PollFail: the poll in flight ends with a failure.
FailStep ==
  snapshot # NoSnapshot /\ snapshot' = NoSnapshot /\ lastResult' = "failed"

\* C22: a failed poll leaves the question statuses, the unacknowledged writes
\* and the transcript chunks as they were and leaves the poller idle, ready
\* for its next tick; the poll after a failed one is eventually attempted.
C22_FailedPollChangesNothing ==
  /\ [][FailStep => UNCHANGED <<qStatus, unacked, advanceTimer, chunks, currentChunkRef>>]_vars
  /\ (lastResult = "failed" /\ snapshot = NoSnapshot) ~> (snapshot # NoSnapshot)

C22_Witness ==
  /\ lastResult = "failed"
  /\ snapshot = NoSnapshot
  /\ chunks # <<>>
  /\ \E q \in unacked : qStatus[q] = "active" /\ remote[q] = "pending"

\* C23: while a later session records, an open event or a recognition message
\* of the socket of an earlier session leaves the accumulator, the chunks and
\* the flush timer as they are.
C23_StaleCallbacksIgnored ==
  [][\A s \in Sess :
       (s < started /\ isRecording) =>
          /\ (sock[s] = "connecting" /\ sock'[s] = "open") =>
                UNCHANGED <<currentChunkRef, chunks, chunkTimerRef, timer>>
          /\ \A m \in Messages :
                SockMessage(s, m) =>
                   UNCHANGED <<currentChunkRef, chunks, chunkTimerRef, timer>>]_vars

\* The flush timers that are scheduled.
ActiveTimers == {t \in Sess : timer[t] = "active"}

\* C24: at most one flush timer is scheduled; a scheduled timer belongs to
\* the session that is recording and the socket of that session has opened;
\* while recording is off no timer is scheduled, so no tick appends a chunk.
C24_OneTimerAfterOpen ==
  /\ Cardinality(ActiveTimers) <= 1
  /\ \A t \in ActiveTimers :
       /\ isRecording
       /\ sock[started] \in {"open", "errored", "lost"}
  /\ ~isRecording => ActiveTimers = {}

\* A step in which onTranscriptComplete is called.
CompletionCall == followUpTimers' = followUpTimers + 1

C26_QuiescesAfterStop ==
  (~isRecording /\ chunks # <<>>) ~> [](followUpTimers = 0 /\ ~EffectPending)

\* C27: whenever recording is off and no start routine is waiting for its
\* fetch or for the microphone, the connecting indicator is false.
C27_IndicatorClearedWhenIdle ==
  (~isRecording /\ \A s \in Sess : pc[s] \notin Suspended) => ~isConnecting

\* C28: the panel calls onMarkDone and onSkip only for a question rendered as
\* active, such a click calls nothing else (no onSetActive), and no callback
\* is called for a question rendered as skipped.
C28_PanelCallbacks ==
  /\ \A i \in DOMAIN issued :
       /\ issued[i].status # "skipped"
       /\ issued[i].cb \in {"onMarkDone", "onSkip"} => issued[i].status = "active"
  /\ (\E i \in DOMAIN issued : issued[i].cb \in {"onMarkDone", "onSkip"}) =>
        Len(issued) = 1

C28_Witness ==
  \E q \in Questions :
    /\ issued = <<[cb |-> "onSkip", id |-> q, status |-> "active"]>>
    /\ qStatus[q] = "skipped"
    /\ \E d \in Questions : qStatus[d] = "done"

\* C29: the answers list holds at most one Answer per questionId.
C29_OneAnswerPerQuestion ==
  \A i, j \in DOMAIN answers :
    i # j => answers[i].questionId # answers[j].questionId

\* C30: currentQuestionIndex stays within 0 .. questions.length - 1; Next at
\* the last question and Previous at the first leave it unchanged.
C30_IndexInRange ==
  /\ [](currentQuestionIndex \in 0..(NumQuestions - 1))
  /\ [][/\ (handleNext /\ currentQuestionIndex = NumQuestions - 1) =>
              currentQuestionIndex' = currentQuestionIndex
        /\ (handlePrevious /\ currentQuestionIndex = 0) =>
              currentQuestionIndex' = currentQuestionIndex]_vars

C30_Witness ==
  /\ currentQuestionIndex = NumQuestions - 1
  /\ Len(answers) = NumQuestions
  /\ \A i \in DOMAIN answers : answers[i].questionId = i

====
